---- MODULE Spec2Model ----
(***************************************************************************)
(* PanGBank ingestion: the taxonomy reconciliation and linkage engine and  *)
(* the collection/release lifecycle, as a state machine over the database  *)
(* tables.  One ingestion run (add_collection_release) walks the stages    *)
(* add_genomes_to_db -> create_taxonomy_source -> add_taxon_to_db ->       *)
(* link_genomes_and_taxa -> create_collection_release ->                   *)
(* add_pangenomes_to_db on one session; every stage commits on its own and *)
(* an exception in a stage ends the run.                                   *)
(***************************************************************************)
EXTENDS Integers, Sequences, FiniteSets, TLC

VARIABLES db, run, last, add_calls, runs

vars == <<db, run, last, add_calls, runs>>

(***************************************************************************)
(* Bounds of the model.                                                    *)
(***************************************************************************)
\* taxon names that may occur at a depth of a lineage
NumNames == 2
\* longest lineage of the genome->lineage table, taxonomy specification
MaxLineageLen == 2
\* longest lineage of the genome->lineage table, pangenome specification
MaxLineageLenWide == 3
\* ingestion runs of the taxonomy specification
MaxRuns == 2
\* genomes of the taxonomy specification
NumGenomes == 2
\* genomes of the run of the pangenome specification
NumGenomesWide == 3
\* ingestion runs of the pangenome specification
MaxRunsWide == 1
\* member rows of one pangenome's genome metrics table
MaxMembers == 3
\* create/delete commands of the release specification
MaxReleaseOps == 3
\* the longest list given to get_common_taxa
MaxTaxaLen == 3

AllNames == <<"A", "B", "C", "D">>
Names == {AllNames[i] : i \in 1..NumNames}

AllGenomes == <<"g1", "g2", "g3", "g4", "g5">>
GenomeNames(n) == {AllGenomes[i] : i \in 1..n}

(***************************************************************************)
(* Generic helpers.                                                        *)
(***************************************************************************)
Range(s) == {s[i] : i \in DOMAIN s}

Max(S) == CHOOSE x \in S : \A y \in S : y <= x

Min(S) == CHOOSE x \in S : \A y \in S : x <= y

\* the rows of a table in ascending id order
RECURSIVE RowsById(_)
RowsById(rows) ==
    IF rows = {} THEN <<>>
    ELSE LET first == CHOOSE r \in rows : \A o \in rows : r.id <= o.id
         IN  <<first>> \o RowsById(rows \ {first})

\* every sequence over S of length lo..hi
SeqsOver(S, lo, hi) == UNION {[1..n -> S] : n \in lo..hi}

\* the orders in which a Python set of names may be iterated
NameOrders == {f \in [Names -> 1..Cardinality(Names)] :
                 \A a, b \in Names : a # b => f[a] # f[b]}

\* autoincremented primary key of a new row
NextId(rows) == IF rows = {} THEN 1 ELSE Max({r.id : r \in rows}) + 1

(***************************************************************************)
(* Rank strings.  A ranks string "Domain; Phylum" is the sequence of its   *)
(* ';'-separated fields, each a raw token.                                 *)
(***************************************************************************)
\* str.strip() on the rank tokens of the model
Strip(tok) ==
    CASE tok = " Phylum" -> "Phylum"
      [] tok = "domain " -> "domain"
      [] OTHER -> tok

\* str.title() on the stripped rank tokens of the model
Title(tok) ==
    CASE tok = "domain" -> "Domain"
      [] OTHER -> tok

\* the fields compared as written, neither stripped nor title-cased
parse_ranks_str_raw(ranks_str) == ranks_str


parse_ranks_str(ranks_str) == [i \in DOMAIN ranks_str |-> Title(Strip(ranks_str[i]))]

\* add_taxon_to_db: ranks = [rank.strip() for rank in ranks.split(";")]
StrippedRanks(ranks_str) == [i \in DOMAIN ranks_str |-> Strip(ranks_str[i])]

(***************************************************************************)
(* The database and the run-local state.                                   *)
(***************************************************************************)
EmptyDb ==
    [genomesource       |-> {},
     genome             |-> {},
     taxonomysource     |-> {},
     taxon              |-> {},
     genometaxonlink    |-> {},
     collection         |-> {},
     collectionrelease  |-> {},
     pangenome          |-> {},
     genomepangenomelink |-> {},
     pangenometaxonlink |-> {}]

IdleRun ==
    [pc                     |-> "idle",
     genome_name_to_genome  |-> <<>>,
     taxonomy_source        |-> 0,
     genome_name_to_lineage |-> <<>>,
     name_to_taxon_by_depth |-> <<>>,
     collection_release     |-> 0,
     \* history: the committed database when the run started
     db_at_start            |-> EmptyDb]

NoCall == [op |-> "none", raised |-> "none"]

Init ==
    /\ db = EmptyDb
    /\ run = IdleRun
    /\ last = NoCall
    /\ add_calls = <<>>
    /\ runs = 0

\* an exception leaves the stage: the run ends, nothing pending is committed
Raise(op, error) ==
    /\ run' = IdleRun
    /\ last' = [op |-> op, raised |-> error]
    /\ UNCHANGED <<db, add_calls>>

(***************************************************************************)
(* add_genomes_to_db: genome sources are looked up by name or created,     *)
(* then each source's genome list is walked; a name the source does not    *)
(* have yet becomes a new Genome row.  Genome.name is unique.              *)
(***************************************************************************)
create_genome_sources(sources, inputs) ==
    sources \cup {[name |-> inputs[i].name] : i \in DOMAIN inputs}

\* the positions of one source's list that create a Genome
NewGenomePositions(genomes, src) ==
    {i \in DOMAIN src.genomes :
        ~\E g \in genomes : g.genome_source = src.name /\ g.name = src.genomes[i]}

\* the Genome rows one source's list creates, ids in list order
NewGenomeRows(genomes, src) ==
    LET P == NewGenomePositions(genomes, src)
    IN  {[id            |-> NextId(genomes) + Cardinality({j \in P : j < i}),
          name          |-> src.genomes[i],
          genome_source |-> src.name] : i \in P}

\* the commit of one source's new genomes violates the unique name
GenomeNameClash(genomes, src) ==
    LET new == NewGenomeRows(genomes, src)
    IN  \/ \E n \in new : \E g \in genomes : g.name = n.name
        \/ \E n, m \in new : n.id # m.id /\ n.name = m.name

\* create_genomes over the sources from position i on: the genome table
\* committed so far, the name -> genome id mapping, and whether a commit failed
RECURSIVE create_genomes(_, _, _, _)
create_genomes(inputs, i, genomes, mapping) ==
    IF i > Len(inputs) THEN [genome |-> genomes, mapping |-> mapping, raised |-> "none"]
    ELSE
      LET src == inputs[i]
      IN  IF GenomeNameClash(genomes, src)
          THEN [genome |-> genomes, mapping |-> mapping, raised |-> "IntegrityError"]
          ELSE
            LET all == genomes \cup NewGenomeRows(genomes, src)
                here == [n \in Range(src.genomes) |->
                           (CHOOSE g \in all :
                               g.genome_source = src.name /\ g.name = n).id]
            IN  create_genomes(inputs, i + 1, all, here @@ mapping)

add_genomes_to_db(inputs) ==
    /\ run.pc = "idle"
    /\ LET res == create_genomes(inputs, 1, db.genome, <<>>)
       IN  /\ db' = [db EXCEPT !.genomesource = create_genome_sources(@, inputs),
                               !.genome = res.genome]
           /\ last' = [op |-> "add_genomes_to_db", raised |-> res.raised]
           /\ run' = IF res.raised = "none"
                     THEN [IdleRun EXCEPT !.pc = "create_taxonomy_source",
                                          !.genome_name_to_genome = res.mapping,
                                          !.db_at_start = db]
                     ELSE IdleRun
    /\ runs' = runs + 1
    /\ UNCHANGED add_calls

\* the first n genome names, in the order of the genome source file
GenomeList(n) == [i \in 1..n |-> AllGenomes[i]]

\* genome source inputs: the one source RefSeq with one of the lists
RefSeqInputs(lists) == {<<[name |-> "RefSeq", genomes |-> l]>> : l \in lists}

(***************************************************************************)
(* create_taxonomy_source: get the source by (name, version) or create it; *)
(* an existing source must carry the same ranks after normalisation.       *)
(***************************************************************************)
create_taxonomy_source(input) ==
    /\ run.pc = "create_taxonomy_source"
    /\ LET found == {s \in db.taxonomysource :
                        s.name = input.name /\ s.version = input.version}
       IN  IF found = {}
           THEN LET new == [id |-> NextId(db.taxonomysource), name |-> input.name,
                            version |-> input.version, ranks |-> input.ranks]
                IN  /\ db' = [db EXCEPT !.taxonomysource = @ \cup {new}]
                    /\ run' = [run EXCEPT !.pc = "add_taxon_to_db",
                                          !.taxonomy_source = new.id]
                    /\ last' = [op |-> "create_taxonomy_source", raised |-> "none"]
                    /\ UNCHANGED add_calls
           ELSE LET taxonomy_source == CHOOSE s \in found : TRUE
                IN  IF parse_ranks_str(taxonomy_source.ranks) # parse_ranks_str(input.ranks)
                    THEN Raise("create_taxonomy_source", "ValueError")
                    ELSE /\ run' = [run EXCEPT !.pc = "add_taxon_to_db",
                                               !.taxonomy_source = taxonomy_source.id]
                         /\ last' = [op |-> "create_taxonomy_source", raised |-> "none"]
                         /\ UNCHANGED <<db, add_calls>>
    /\ UNCHANGED runs


(***************************************************************************)
(* add_taxon_to_db / create_taxon_from_lineages: the names of the batch    *)
(* are grouped by depth; at each depth the persisted taxa of the source    *)
(* are looked up by name and the missing ones created.  Taxon.depth is     *)
(* 0-based; position d of a lineage or of the returned mapping is depth    *)
(* d - 1.                                                                  *)
(***************************************************************************)
Lineages(max_len) == SeqsOver(Names, 1, max_len)

\* the depth filter off by one
get_taxa_by_depth_shifted(taxa, depth, source_id) ==
    {t \in taxa : t.depth = depth + 1 /\ t.taxonomy_source_id = source_id}

get_taxa_by_depth(taxa, depth, source_id) ==
    {t \in taxa : t.depth = depth /\ t.taxonomy_source_id = source_id}

taxon_names_by_depths(n_ranks, lineages) ==
    [d \in 1..n_ranks |-> {l[d] : l \in {x \in lineages : Len(x) >= d}}]

\* every name of the batch taken as new, persisted or not
NewTaxonKeys_no_lookup(taxa, n_ranks, lineages, source_id) ==
    LET names == taxon_names_by_depths(n_ranks, lineages)
    IN  UNION {{<<d, n>> : n \in names[d]} : d \in 1..n_ranks}

\* the (position, name) pairs that have no persisted taxon: new_taxa
NewTaxonKeys(taxa, n_ranks, lineages, source_id) ==
    LET names == taxon_names_by_depths(n_ranks, lineages)
    IN  {k \in UNION {{<<d, n>> : n \in names[d]} : d \in 1..n_ranks} :
            ~\E t \in get_taxa_by_depth(taxa, k[1] - 1, source_id) : t.name = k[2]}

\* every new taxon given the rank of depth 0
NewTaxa_first_rank(taxa, ranks, lineages, source_id, order) ==
    LET keys == NewTaxonKeys(taxa, Len(ranks), lineages, source_id)
        before(k) == {o \in keys : \/ o[1] < k[1]
                                   \/ o[1] = k[1] /\ order[o[2]] < order[k[2]]}
    IN  {[id                 |-> NextId(taxa) + Cardinality(before(k)),
          name               |-> k[2],
          rank               |-> ranks[1],
          depth              |-> k[1] - 1,
          taxonomy_source_id |-> source_id] : k \in keys}


\* new_taxa as rows: ids follow the order of the list, depth by depth and
\* within a depth in the iteration order of the set of names
NewTaxa(taxa, ranks, lineages, source_id, order) ==
    LET keys == NewTaxonKeys(taxa, Len(ranks), lineages, source_id)
        before(k) == {o \in keys : \/ o[1] < k[1]
                                   \/ o[1] = k[1] /\ order[o[2]] < order[k[2]]}
    IN  {[id                 |-> NextId(taxa) + Cardinality(before(k)),
          name               |-> k[2],
          rank               |-> ranks[k[1]],
          depth              |-> k[1] - 1,
          taxonomy_source_id |-> source_id] : k \in keys}

\* name_to_taxon_by_depth: per depth, name -> id of the persisted taxon if
\* there is one, of the new taxon otherwise
NameToTaxonByDepth(taxa, new_taxa, n_ranks, lineages, source_id) ==
    LET names == taxon_names_by_depths(n_ranks, lineages)
        resolve(d, n) ==
            LET old == {t \in get_taxa_by_depth(taxa, d - 1, source_id) : t.name = n}
            IN  IF old # {} THEN (CHOOSE t \in old : TRUE).id
                ELSE (CHOOSE t \in new_taxa : t.depth = d - 1 /\ t.name = n).id
    IN  [d \in 1..n_ranks |-> [n \in names[d] |-> resolve(d, n)]]

SourceById(id) == CHOOSE s \in db.taxonomysource : s.id = id

add_taxon_to_db(table, order) ==
    /\ run.pc = "add_taxon_to_db"
    /\ LET ranks    == StrippedRanks(SourceById(run.taxonomy_source).ranks)
           lineages == Range(table)
       IN  IF \E l \in lineages : Len(l) > Len(ranks)
           THEN Raise("add_taxon_to_db", "IndexError")
           ELSE
             LET new == NewTaxa(db.taxon, ranks, lineages, run.taxonomy_source, order)
                 map == NameToTaxonByDepth(db.taxon, new, Len(ranks), lineages,
                                           run.taxonomy_source)
             IN  /\ db' = [db EXCEPT !.taxon = @ \cup new]
                 /\ run' = [run EXCEPT !.pc = "link_genomes_and_taxa",
                                       !.genome_name_to_lineage = table,
                                       !.name_to_taxon_by_depth = map]
                 /\ last' = [op |-> "add_taxon_to_db", raised |-> "none"]
                 /\ add_calls' = Append(add_calls,
                                   [taxonomy_source |-> run.taxonomy_source,
                                    lineages |-> lineages,
                                    name_to_taxon_by_depth |-> map,
                                    taxon_count |-> Cardinality(db.taxon \cup new)])
    /\ UNCHANGED runs

(***************************************************************************)
(* link_genomes_and_taxa: a genome that has no link to the depth-0 taxon   *)
(* of its lineage gets a link to the taxon of every depth; the links are   *)
(* added and committed at the end.  (genome_id, taxon_id) is the primary   *)
(* key of GenomeTaxonLink.                                                 *)
(***************************************************************************)
\* the lookups of the loop body fail for this genome
LookupFails(genome_name, table, map) ==
    \/ genome_name \notin DOMAIN table
    \/ Len(table[genome_name]) = 0
    \/ \E d \in DOMAIN table[genome_name] :
          d \notin DOMAIN map \/ table[genome_name][d] \notin DOMAIN map[d]

\* existing_link is None
Unlinked(links, genome_id, taxon_id) ==
    [genome_id |-> genome_id, taxon_id |-> taxon_id] \notin links

new_genome_taxon_links(links, genomes, table, map) ==
    UNION {{[genome_id |-> genomes[g], taxon_id |-> map[d][table[g][d]]] :
               d \in DOMAIN table[g]} :
           g \in {x \in DOMAIN genomes :
                    Unlinked(links, genomes[x], map[1][table[x][1]])}}

\* link_genomes_and_taxa passing over the genomes that have no lineage entry
link_genomes_and_taxa_skip_missing ==
    /\ run.pc = "link_genomes_and_taxa"
    /\ LET table   == run.genome_name_to_lineage
           genomes == [g \in DOMAIN run.genome_name_to_genome \cap DOMAIN table |->
                          run.genome_name_to_genome[g]]
           map     == run.name_to_taxon_by_depth
           new     == new_genome_taxon_links(db.genometaxonlink, genomes, table, map)
       IN  /\ db' = [db EXCEPT !.genometaxonlink = @ \cup new]
           /\ run' = [run EXCEPT !.pc = "create_collection_release"]
           /\ last' = [op |-> "link_genomes_and_taxa", raised |-> "none", added |-> new]
    /\ UNCHANGED <<add_calls, runs>>


link_genomes_and_taxa ==
    /\ run.pc = "link_genomes_and_taxa"
    /\ LET genomes == run.genome_name_to_genome
           table   == run.genome_name_to_lineage
           map     == run.name_to_taxon_by_depth
       IN  IF \E g \in DOMAIN genomes : LookupFails(g, table, map)
           THEN /\ run' = IdleRun
                /\ last' = [op |-> "link_genomes_and_taxa", raised |-> "LookupError",
                            added |-> {}]
                /\ UNCHANGED db
           ELSE
             LET new == new_genome_taxon_links(db.genometaxonlink, genomes, table, map)
             IN  IF new \cap db.genometaxonlink # {}
                 THEN /\ run' = IdleRun
                      /\ last' = [op |-> "link_genomes_and_taxa",
                                  raised |-> "IntegrityError", added |-> {}]
                      /\ UNCHANGED db
                 ELSE /\ db' = [db EXCEPT !.genometaxonlink = @ \cup new]
                      /\ run' = [run EXCEPT !.pc = "create_collection_release"]
                      /\ last' = [op |-> "link_genomes_and_taxa", raised |-> "none",
                                  added |-> new]
    /\ UNCHANGED <<add_calls, runs>>


(***************************************************************************)
(* Versions.  packaging.version.parse on the version strings of the model: *)
(* the release segment as a pair, or no version at all.                    *)
(***************************************************************************)
\* every string taken for a version, the unknown ones for 0.0
parse_lenient(version) ==
    CASE version = "1.0"   -> [valid |-> TRUE, release |-> <<1, 0>>]
      [] version = "1.0.0" -> [valid |-> TRUE, release |-> <<1, 0>>]
      [] version = "1.2"   -> [valid |-> TRUE, release |-> <<1, 2>>]
      [] version = "1.10"  -> [valid |-> TRUE, release |-> <<1, 10>>]
      [] version = "2.0"   -> [valid |-> TRUE, release |-> <<2, 0>>]
      [] OTHER             -> [valid |-> TRUE, release |-> <<0, 0>>]


parse(version) ==
    CASE version = "1.0"   -> [valid |-> TRUE, release |-> <<1, 0>>]
      [] version = "1.0.0" -> [valid |-> TRUE, release |-> <<1, 0>>]
      [] version = "1.2"   -> [valid |-> TRUE, release |-> <<1, 2>>]
      [] version = "1.10"  -> [valid |-> TRUE, release |-> <<1, 10>>]
      [] version = "2.0"   -> [valid |-> TRUE, release |-> <<2, 0>>]
      [] OTHER             -> [valid |-> FALSE, release |-> <<>>]


\* Version.__lt__
VersionLess(a, b) ==
    \/ parse(a).release[1] < parse(b).release[1]
    \/ /\ parse(a).release[1] = parse(b).release[1]
       /\ parse(a).release[2] < parse(b).release[2]

(***************************************************************************)
(* create_collection_release and set_latest_release_in_collection.         *)
(***************************************************************************)
ReleasesOf(releases, collection_id) == {r \in releases : r.collection_id = collection_id}

\* the release stored last taken for the first of the sort
FirstOfSorted_newest(rels) ==
    CHOOSE r \in rels : \A o \in rels : o.id <= r.id


\* releases[0] of sorted(collection.releases, key=parse(version), reverse=True):
\* the sort is stable, so among equal versions the first loaded row stays first
FirstOfSorted(rels) ==
    CHOOSE r \in rels :
        \A o \in rels : o # r =>
            \/ VersionLess(o.version, r.version)
            \/ ~VersionLess(r.version, o.version) /\ r.id < o.id

\* the release table after set_latest_release_in_collection
set_latest_release_in_collection(releases, collection_id) ==
    LET rels == ReleasesOf(releases, collection_id)
    IN  IF rels = {} THEN releases
        ELSE LET top == FirstOfSorted(rels)
             IN  {IF r \in rels THEN [r EXCEPT !.latest = (r.id = top.id)] ELSE r :
                     r \in releases}

\* the sort key raises InvalidVersion
SortRaises(releases, collection_id) ==
    \E r \in ReleasesOf(releases, collection_id) : ~parse(r.version).valid

\* only the workflow version and the metadata sources compared
SameImmutableFields_no_ppanggolin(release_input, genome_metadata_sources, existing) ==
    /\ release_input.pangbank_wf_version = existing.pangbank_wf_version
    /\ genome_metadata_sources = existing.genome_metadata_sources

\* same_ppanggo_version and same_pangbank_wf_version and
\* same_genome_metadata_sources
SameImmutableFields(release_input, genome_metadata_sources, existing) ==
    /\ release_input.ppanggolin_version = existing.ppanggolin_version
    /\ release_input.pangbank_wf_version = existing.pangbank_wf_version
    /\ genome_metadata_sources = existing.genome_metadata_sources

\* what a call of create_collection_release leaves in `last`
ReleaseCall(collection_input, release_input, raised) ==
    [op |-> "create_collection_release", raised |-> raised,
     collection_input |-> collection_input, release_input |-> release_input]

\* the release stored without the lookup by (collection name, version)
create_collection_release_no_release_lookup(collection_input, release_input, genome_metadata_sources) ==
    /\ run.pc = "create_collection_release"
    /\ LET collection_from_db == {c \in db.collection : c.name = collection_input.name}
           collection ==
               IF collection_from_db = {}
               THEN [id |-> NextId(db.collection), name |-> collection_input.name,
                     description |-> collection_input.description]
               ELSE CHOOSE c \in collection_from_db : TRUE
           new == [id |-> NextId(db.collectionrelease),
                   collection_id |-> collection.id,
                   version |-> release_input.version,
                   ppanggolin_version |-> release_input.ppanggolin_version,
                   pangbank_wf_version |-> release_input.pangbank_wf_version,
                   latest |-> FALSE,
                   taxonomy_source_id |-> run.taxonomy_source,
                   genome_metadata_sources |-> genome_metadata_sources]
           releases == db.collectionrelease \cup {new}
       IN  IF SortRaises(releases, collection.id)
           THEN /\ db' = [db EXCEPT !.collection = @ \cup {collection},
                                    !.collectionrelease = releases]
                /\ run' = IdleRun
                /\ last' = ReleaseCall(collection_input, release_input, "InvalidVersion")
           ELSE /\ db' = [db EXCEPT
                            !.collection = @ \cup {collection},
                            !.collectionrelease =
                                set_latest_release_in_collection(releases, collection.id)]
                /\ run' = [run EXCEPT !.pc = "add_pangenomes_to_db",
                                      !.collection_release = new.id]
                /\ last' = ReleaseCall(collection_input, release_input, "none")
    /\ UNCHANGED <<add_calls, runs>>


create_collection_release(collection_input, release_input, genome_metadata_sources) ==
    /\ run.pc = "create_collection_release"
    /\ LET collection_from_db == {c \in db.collection : c.name = collection_input.name}
           collection ==
               IF collection_from_db = {}
               THEN [id |-> NextId(db.collection), name |-> collection_input.name,
                     description |-> collection_input.description]
               ELSE CHOOSE c \in collection_from_db : TRUE
           \* committed at the first session.commit()
           collections == db.collection \cup {collection}
           release_from_db == {r \in db.collectionrelease :
                                 /\ r.collection_id = collection.id
                                 /\ r.version = release_input.version}
       IN  IF release_from_db = {}
           THEN
             LET new == [id |-> NextId(db.collectionrelease),
                         collection_id |-> collection.id,
                         version |-> release_input.version,
                         ppanggolin_version |-> release_input.ppanggolin_version,
                         pangbank_wf_version |-> release_input.pangbank_wf_version,
                         latest |-> FALSE,
                         taxonomy_source_id |-> run.taxonomy_source,
                         genome_metadata_sources |-> genome_metadata_sources]
                 \* committed at the second session.commit()
                 releases == db.collectionrelease \cup {new}
             IN  IF SortRaises(releases, collection.id)
                 THEN /\ db' = [db EXCEPT !.collection = collections,
                                          !.collectionrelease = releases]
                      /\ run' = IdleRun
                      /\ last' = ReleaseCall(collection_input, release_input, "InvalidVersion")
                 ELSE /\ db' = [db EXCEPT
                                  !.collection = collections,
                                  !.collectionrelease =
                                      set_latest_release_in_collection(releases,
                                                                       collection.id)]
                      /\ run' = [run EXCEPT !.pc = "add_pangenomes_to_db",
                                            !.collection_release = new.id]
                      /\ last' = ReleaseCall(collection_input, release_input, "none")
           ELSE
             LET existing == CHOOSE r \in release_from_db : TRUE
             IN  IF ~SameImmutableFields(release_input, genome_metadata_sources, existing)
                 THEN /\ db' = [db EXCEPT !.collection = collections]
                      /\ run' = IdleRun
                      /\ last' = ReleaseCall(collection_input, release_input, "ValueError")
                 ELSE IF SortRaises(db.collectionrelease, collection.id)
                 THEN /\ db' = [db EXCEPT !.collection = collections]
                      /\ run' = IdleRun
                      /\ last' = ReleaseCall(collection_input, release_input, "InvalidVersion")
                 ELSE /\ db' = [db EXCEPT
                                  !.collection = collections,
                                  !.collectionrelease =
                                      set_latest_release_in_collection(@, collection.id)]
                      /\ run' = [run EXCEPT !.pc = "add_pangenomes_to_db",
                                            !.collection_release = existing.id]
                      /\ last' = ReleaseCall(collection_input, release_input, "none")
    /\ UNCHANGED <<add_calls, runs>>


(***************************************************************************)
(* The pangenome common-ancestor resolver.                                 *)
(***************************************************************************)
\* the elements of taxa_B found in taxa_A, in the order of taxa_B
get_common_taxa_by_second(taxa_A, taxa_B) ==
    SelectSeq(taxa_B, LAMBDA taxon : taxon \in Range(taxa_A))


\* the membership test left out
get_common_taxa_unfiltered(taxa_A, taxa_B) == taxa_A

\* taxa_A filtered by membership in taxa_B, in the order of taxa_A
get_common_taxa(taxa_A, taxa_B) ==
    SelectSeq(taxa_A, LAMBDA taxon : taxon \in Range(taxa_B))

TaxonById(id) == CHOOSE t \in db.taxon : t.id = id

\* genome.taxa restricted to the taxonomy source, as a list of Taxon rows
genome_taxa(genome_id, source_id) ==
    RowsById({t \in db.taxon :
                /\ [genome_id |-> genome_id, taxon_id |-> t.id] \in db.genometaxonlink
                /\ t.taxonomy_source_id = source_id})

\* pangenome_taxa after the first n genomes of the loop of
\* link_pangenome_and_genome_taxa
RECURSIVE PangenomeTaxaAfter(_, _, _)
PangenomeTaxaAfter(genomes, n, source_id) ==
    IF n = 0 THEN <<>>
    ELSE LET pangenome_taxa == PangenomeTaxaAfter(genomes, n - 1, source_id)
             taxa == genome_taxa(genomes[n], source_id)
         IN  IF pangenome_taxa = <<>>
             THEN taxa
             ELSE get_common_taxa(taxa, pangenome_taxa)

\* the Taxon rows link_pangenome_and_genome_taxa links to the pangenome
link_pangenome_and_genome_taxa(genomes, source_id) ==
    PangenomeTaxaAfter(genomes, Len(genomes), source_id)

(***************************************************************************)
(* add_pangenomes_to_db: every pangenome directory that the release does   *)
(* not hold yet becomes a Pangenome with its genome links and its taxon    *)
(* links; one commit at the end.  (genome_id, pangenome_id) is unique in   *)
(* GenomePangenomeLink.                                                    *)
(***************************************************************************)
ReleaseById(id) == CHOOSE r \in db.collectionrelease : r.id = id

\* every directory taken for new, file_to_existing_pangenome not consulted
NewPangenomeDirs_all(dirs, release_id) == dirs


\* the directories whose file is not a pangenome of the release yet
NewPangenomeDirs(dirs, release_id) ==
    SelectSeq(dirs, LAMBDA dir :
        ~\E p \in db.pangenome : /\ p.collection_release_id = release_id
                                 /\ p.file_name = dir.file_name)

\* link_pangenome_and_genomes: the Genome of every row of the metrics table
MemberGenomes(dir) ==
    [i \in DOMAIN dir.members |-> run.genome_name_to_genome[dir.members[i]]]

\* the returned list `pangenomes`, as Pangenome ids: for every directory the
\* stored pangenome of the release with its file, or the new one
ReturnedPangenomes(dirs, release_id) ==
    LET stored(i) == {p \in db.pangenome : /\ p.collection_release_id = release_id
                                           /\ p.file_name = dirs[i].file_name}
    IN  [i \in DOMAIN dirs |->
            IF stored(i) # {}
            THEN (CHOOSE p \in stored(i) : TRUE).id
            ELSE NextId(db.pangenome)
                   + Cardinality({j \in 1..(i - 1) : stored(j) = {}})]


\* the Pangenome rows committed on their own, the link rows left to a later
\* transaction
add_pangenomes_to_db_rows_first(dirs) ==
    /\ run.pc = "add_pangenomes_to_db"
    /\ LET release == ReleaseById(run.collection_release)
           new_dirs == NewPangenomeDirs(dirs, release.id)
       IN  IF \E i \in DOMAIN new_dirs :
                 \E m \in Range(new_dirs[i].members) :
                     m \notin DOMAIN run.genome_name_to_genome
           THEN /\ last' = [op |-> "add_pangenomes_to_db", raised |-> "KeyError",
                            linked |-> <<>>, returned |-> <<>>]
                /\ UNCHANGED db
           ELSE /\ db' = [db EXCEPT
                      !.pangenome = @ \cup
                          {[id |-> NextId(db.pangenome) + i - 1,
                            file_name |-> new_dirs[i].file_name,
                            collection_release_id |-> release.id] :
                              i \in DOMAIN new_dirs}]
                /\ last' = [op |-> "add_pangenomes_to_db", raised |-> "none",
                            linked |-> [i \in DOMAIN new_dirs |->
                                          [pangenome_id |-> NextId(db.pangenome) + i - 1,
                                           genomes |-> MemberGenomes(new_dirs[i])]],
                            returned |-> ReturnedPangenomes(dirs, release.id)]
    /\ run' = IdleRun
    /\ UNCHANGED <<add_calls, runs>>


add_pangenomes_to_db(dirs) ==
    /\ run.pc = "add_pangenomes_to_db"
    /\ LET release == ReleaseById(run.collection_release)
           new_dirs == NewPangenomeDirs(dirs, release.id)
           pangenome_id(i) == NextId(db.pangenome) + i - 1
       IN  IF \E i \in DOMAIN new_dirs :
                 \E m \in Range(new_dirs[i].members) :
                     m \notin DOMAIN run.genome_name_to_genome
           THEN /\ run' = IdleRun
                /\ last' = [op |-> "add_pangenomes_to_db", raised |-> "KeyError",
                            linked |-> <<>>, returned |-> <<>>]
                /\ UNCHANGED db
           ELSE IF \E i \in DOMAIN new_dirs :
                      \E j, k \in DOMAIN new_dirs[i].members :
                          j # k /\ new_dirs[i].members[j] = new_dirs[i].members[k]
           THEN /\ run' = IdleRun
                /\ last' = [op |-> "add_pangenomes_to_db", raised |-> "IntegrityError",
                            linked |-> <<>>, returned |-> <<>>]
                /\ UNCHANGED db
           ELSE
             LET linked == [i \in DOMAIN new_dirs |->
                              [pangenome_id |-> pangenome_id(i),
                               genomes |-> MemberGenomes(new_dirs[i])]]
             IN  /\ db' = [db EXCEPT
                      !.pangenome = @ \cup
                          {[id |-> pangenome_id(i),
                            file_name |-> new_dirs[i].file_name,
                            collection_release_id |-> release.id] :
                              i \in DOMAIN new_dirs},
                      !.genomepangenomelink = @ \cup UNION
                          {{[genome_id |-> g, pangenome_id |-> linked[i].pangenome_id] :
                               g \in Range(linked[i].genomes)} : i \in DOMAIN new_dirs},
                      !.pangenometaxonlink = @ \cup UNION
                          {{[pangenome_id |-> linked[i].pangenome_id, taxon_id |-> t.id] :
                               t \in Range(link_pangenome_and_genome_taxa(
                                              linked[i].genomes,
                                              release.taxonomy_source_id))} :
                           i \in DOMAIN new_dirs}]
                 /\ run' = IdleRun
                 /\ last' = [op |-> "add_pangenomes_to_db", raised |-> "none",
                             linked |-> linked,
                             returned |-> ReturnedPangenomes(dirs, release.id)]
    /\ UNCHANGED <<add_calls, runs>>

(***************************************************************************)
(* delete_full_collection and delete_collection_release: the deletion      *)
(* cascades from a collection to its releases, from a release to its       *)
(* pangenomes and from a pangenome to its link rows.                       *)
(***************************************************************************)
\* the releases removed without the cascade to their pangenomes
WithoutReleases_no_cascade(d, gone) ==
    [d EXCEPT !.collectionrelease = {r \in @ : r.id \notin gone}]


\* the database without the releases `gone` and what hangs from them
WithoutReleases(d, gone) ==
    LET pangenomes == {p \in d.pangenome : p.collection_release_id \in gone}
        ids == {p.id : p \in pangenomes}
    IN  [d EXCEPT !.collectionrelease = {r \in @ : r.id \notin gone},
                  !.pangenome = @ \ pangenomes,
                  !.genomepangenomelink = {l \in @ : l.pangenome_id \notin ids},
                  !.pangenometaxonlink = {l \in @ : l.pangenome_id \notin ids}]

delete_full_collection(collection_name) ==
    /\ run.pc = "idle"
    /\ LET collection_from_db == {c \in db.collection : c.name = collection_name}
       IN  IF collection_from_db = {}
           THEN /\ last' = [op |-> "delete_full_collection", raised |-> "ValueError"]
                /\ UNCHANGED db
           ELSE LET ids == {c.id : c \in collection_from_db}
                    gone == {r.id : r \in {x \in db.collectionrelease :
                                             x.collection_id \in ids}}
                IN  /\ db' = [WithoutReleases(db, gone) EXCEPT
                                 !.collection = @ \ collection_from_db]
                    /\ last' = [op |-> "delete_full_collection", raised |-> "none"]
    /\ runs' = runs + 1
    /\ UNCHANGED <<run, add_calls>>

\* the release looked up by version alone, without the collection name
delete_collection_release_any_collection(collection_name, release_version) ==
    /\ run.pc = "idle"
    /\ LET found == {r \in db.collectionrelease : r.version = release_version}
       IN  IF found = {}
           THEN /\ last' = [op |-> "delete_collection_release", raised |-> "ValueError"]
                /\ UNCHANGED db
           ELSE /\ db' = WithoutReleases(db, {r.id : r \in found})
                /\ last' = [op |-> "delete_collection_release", raised |-> "none"]
    /\ runs' = runs + 1
    /\ UNCHANGED <<run, add_calls>>


delete_collection_release(collection_name, release_version) ==
    /\ run.pc = "idle"
    /\ LET found == {r \in db.collectionrelease :
                        /\ r.version = release_version
                        /\ \E c \in db.collection :
                              c.id = r.collection_id /\ c.name = collection_name}
       IN  IF found = {}
           THEN /\ last' = [op |-> "delete_collection_release", raised |-> "ValueError"]
                /\ UNCHANGED db
           ELSE /\ db' = WithoutReleases(db, {r.id : r \in found})
                /\ last' = [op |-> "delete_collection_release", raised |-> "none"]
    /\ runs' = runs + 1
    /\ UNCHANGED <<run, add_calls>>


(***************************************************************************)
(* Inputs of a run that a specification keeps fixed.                       *)
(***************************************************************************)
GTDB(version, ranks) == [name |-> "GTDB", version |-> version, ranks |-> ranks]

CollectionA == [name |-> "collection_A", description |-> "d1"]

Release10 == [version |-> "1.0", ppanggolin_version |-> "2.1.0",
              pangbank_wf_version |-> "1.0.0"]

(***************************************************************************)
(* Spec: repeated ingestion runs over a few genomes, with any lineage      *)
(* table, two versions of the taxonomy source and rank strings that agree, *)
(* differ in spelling only, or differ.  The runs ingest one fixed release  *)
(* with no pangenome directory.                                            *)
(***************************************************************************)
TaxonomySourceInputs ==
    {GTDB(v, r) : v \in {"24.1", "25.0"},
                  r \in {<<"Domain", " Phylum">>, <<"domain ", "Phylum">>, <<"Domain">>}}

AddGenomes ==
    \E inputs \in RefSeqInputs({GenomeList(k) : k \in 1..NumGenomes}) :
        runs < MaxRuns /\ add_genomes_to_db(inputs)

CreateTaxonomySource ==
    \E input \in TaxonomySourceInputs : create_taxonomy_source(input)

AddTaxonToDb ==
    /\ run.pc = "add_taxon_to_db"
    /\ \E table \in [DOMAIN run.genome_name_to_genome -> Lineages(MaxLineageLen)] :
          \E order \in NameOrders : add_taxon_to_db(table, order)

LinkGenomesAndTaxa == link_genomes_and_taxa

CreateCollectionRelease == create_collection_release(CollectionA, Release10, {})

AddPangenomesToDb == add_pangenomes_to_db(<<>>)

Next ==
    \/ AddGenomes
    \/ CreateTaxonomySource
    \/ AddTaxonToDb
    \/ LinkGenomesAndTaxa
    \/ CreateCollectionRelease
    \/ AddPangenomesToDb

Spec == Init /\ [][Next]_vars


(***************************************************************************)
(* Properties of the taxon identity index and the materializer.            *)
(***************************************************************************)
\* the (depth, name) keys of a lineage set
KeysOf(lineages) == UNION {{<<d, l[d]>> : d \in DOMAIN l} : l \in lineages}

\* C1: within one taxonomy source no two persisted Taxon rows share the same
\* (depth, name): every import resolves a persisted key to its existing row.
C1_UniqueTaxonKey ==
    \A t1, t2 \in db.taxon :
        ( /\ t1.taxonomy_source_id = t2.taxonomy_source_id
          /\ t1.depth = t2.depth
          /\ t1.name = t2.name ) => t1.id = t2.id

\* two imports into the same source with overlapping, different lineage
\* sets, the second of which reused a taxon and created another
C1_Witness ==
    \E i, j \in DOMAIN add_calls :
        /\ i < j
        /\ add_calls[i].taxonomy_source = add_calls[j].taxonomy_source
        /\ add_calls[i].lineages # add_calls[j].lineages
        /\ KeysOf(add_calls[i].lineages) \cap KeysOf(add_calls[j].lineages) # {}
        /\ add_calls[j].taxon_count > add_calls[i].taxon_count

\* C7: importing the same lineage set into the same source again leaves the
\* number of Taxon rows as it was and returns the same depth-indexed mapping.
C7_IdempotentTaxonImport ==
    \A i, j \in DOMAIN add_calls :
        ( /\ i < j
          /\ add_calls[i].taxonomy_source = add_calls[j].taxonomy_source
          /\ add_calls[i].lineages = add_calls[j].lineages )
        => /\ add_calls[j].name_to_taxon_by_depth = add_calls[i].name_to_taxon_by_depth
           /\ (j = i + 1 => add_calls[j].taxon_count = add_calls[i].taxon_count)

\* the same lineage set of two lineages imported twice in a row
C7_Witness ==
    \E i \in DOMAIN add_calls :
        /\ i + 1 \in DOMAIN add_calls
        /\ add_calls[i].taxonomy_source = add_calls[i + 1].taxonomy_source
        /\ add_calls[i].lineages = add_calls[i + 1].lineages
        /\ Cardinality(add_calls[i].lineages) = 2
        /\ add_calls[i + 1].taxon_count >= 3

(***************************************************************************)
(* Properties of the genome-taxon linker.                                  *)
(***************************************************************************)
\* C8: after link_genomes_and_taxa has completed, every genome passed in is
\* linked to the taxon of every depth of the lineage given for it in the run.
C8_AllDepthsLinked ==
    (last.op = "link_genomes_and_taxa" /\ last.raised = "none") =>
        \A g \in DOMAIN run.genome_name_to_genome :
            \A d \in DOMAIN run.genome_name_to_lineage[g] :
                [genome_id |-> run.genome_name_to_genome[g],
                 taxon_id  |-> run.name_to_taxon_by_depth[d][run.genome_name_to_lineage[g][d]]]
                    \in db.genometaxonlink

\* C9: no run of link_genomes_and_taxa tries to insert a (genome, taxon) link
\* that is already persisted, so the commit never fails on the primary key.
C9_NoDuplicateLinkInsert ==
    ~(last.op = "link_genomes_and_taxa" /\ last.raised = "IntegrityError")


(***************************************************************************)
(* SpecPangenome: one ingestion run over three genomes with any lineage    *)
(* table of up to three ranks, and one pangenome directory whose metrics   *)
(* table lists any members in any order.                                   *)
(***************************************************************************)
PangenomeDirs(genome_names) ==
    {<<[file_name |-> "speciesA/pangenome.h5", members |-> m]>> :
        m \in SeqsOver(genome_names, 1, MaxMembers)}

WideAddGenomes ==
    \E inputs \in RefSeqInputs({GenomeList(NumGenomesWide)}) :
        runs < MaxRunsWide /\ add_genomes_to_db(inputs)

WideCreateTaxonomySource ==
    create_taxonomy_source(GTDB("24.1", <<"Domain", " Phylum", "Species">>))

WideAddTaxonToDb ==
    /\ run.pc = "add_taxon_to_db"
    /\ \E table \in [DOMAIN run.genome_name_to_genome -> Lineages(MaxLineageLenWide)] :
          \E order \in NameOrders : add_taxon_to_db(table, order)

WideAddPangenomesToDb ==
    /\ run.pc = "add_pangenomes_to_db"
    /\ \E dirs \in PangenomeDirs(GenomeNames(NumGenomesWide)) : add_pangenomes_to_db(dirs)

NextPangenome ==
    \/ WideAddGenomes
    \/ WideCreateTaxonomySource
    \/ WideAddTaxonToDb
    \/ LinkGenomesAndTaxa
    \/ CreateCollectionRelease
    \/ WideAddPangenomesToDb

SpecPangenome == Init /\ [][NextPangenome]_vars

(***************************************************************************)
(* Properties of the common-ancestor resolver.                             *)
(***************************************************************************)
\* the stored representative taxa of a pangenome, as Taxon ids
PangenomeTaxa(p) == {l.taxon_id : l \in {x \in db.pangenometaxonlink : x.pangenome_id = p.id}}

\* the member genomes of a stored pangenome
Members(p) == {l.genome_id : l \in {x \in db.genomepangenomelink : x.pangenome_id = p.id}}

\* the taxonomy source of the release of a pangenome
SourceOf(p) == ReleaseById(p.collection_release_id).taxonomy_source_id

\* the taxa of a genome for a source, as Taxon ids
GenomeTaxa(g, source_id) == {t.id : t \in Range(genome_taxa(g, source_id))}

\* the depth-0 taxa of a genome for a source
Domains(g, source_id) == {t \in GenomeTaxa(g, source_id) : TaxonById(t).depth = 0}

\* C2: the representative taxon set of a pangenome is a subset of the taxon
\* set of every member genome, for the taxonomy source of its release.
C2_RepresentativeSubset ==
    \A p \in db.pangenome : \A g \in Members(p) :
        PangenomeTaxa(p) \subseteq GenomeTaxa(g, SourceOf(p))

\* C3: when two member genomes have different depth-0 taxa, the
\* representative taxon set is empty.
C3_DifferentDomainsEmpty ==
    \A p \in db.pangenome :
        (\E g1, g2 \in Members(p) :
            /\ Domains(g1, SourceOf(p)) # {}
            /\ Domains(g2, SourceOf(p)) # {}
            /\ Domains(g1, SourceOf(p)) \cap Domains(g2, SourceOf(p)) = {})
        => PangenomeTaxa(p) = {}

\* C4: when all member genomes share a depth-0 taxon, the representative
\* set is exactly the set of taxa that every member genome has.
C4_ExactCommonTaxa ==
    \A p \in db.pangenome :
        (\E t \in db.taxon :
            /\ t.depth = 0
            /\ Members(p) # {}
            /\ \A g \in Members(p) : t.id \in GenomeTaxa(g, SourceOf(p)))
        => PangenomeTaxa(p) =
              {t \in {x.id : x \in db.taxon} :
                  \A g \in Members(p) : t \in GenomeTaxa(g, SourceOf(p))}

\* three members of one domain whose lineages part at the third rank: the
\* representative set has two taxa, each member has three
C4_Witness ==
    \E p \in db.pangenome :
        /\ Cardinality(Members(p)) = 3
        /\ \A g \in Members(p) : Cardinality(GenomeTaxa(g, SourceOf(p))) = 3
        /\ Cardinality(UNION {GenomeTaxa(g, SourceOf(p)) : g \in Members(p)}) = 4
        /\ Cardinality(PangenomeTaxa(p)) = 2
        /\ \E t \in PangenomeTaxa(p) : TaxonById(t).depth = 0

\* C5: the representative set resolved for members G followed by one more
\* genome has at most as many taxa as the one resolved for G.
C5_MonotoneSize ==
    (last.op = "add_pangenomes_to_db" /\ last.raised = "none") =>
        \A i \in DOMAIN last.linked :
            LET genomes == last.linked[i].genomes
                source_id == ReleaseById(CHOOSE r \in {p.collection_release_id :
                                 p \in {x \in db.pangenome :
                                          x.id = last.linked[i].pangenome_id}} : TRUE
                             ).taxonomy_source_id
            IN  \A k \in 1..(Len(genomes) - 1) :
                    Len(link_pangenome_and_genome_taxa(SubSeq(genomes, 1, k + 1), source_id))
                      <= Len(link_pangenome_and_genome_taxa(SubSeq(genomes, 1, k), source_id))

\* C6: the representative taxon set is a contiguous prefix of the rank
\* chain: with a taxon at depth d > 0 it has a taxon at every depth below d.
C6_ContiguousPrefix ==
    \A p \in db.pangenome : \A t \in PangenomeTaxa(p) :
        \A d \in 0..(TaxonById(t).depth - 1) :
            \E u \in PangenomeTaxa(p) : TaxonById(u).depth = d


(***************************************************************************)
(* SpecRelease: ingestion runs and delete commands over two collections    *)
(* and a few release versions and tool versions; the genome and taxonomy   *)
(* inputs are one genome with one lineage.                                 *)
(***************************************************************************)
CollectionInputs ==
    {[name |-> n, description |-> d] : n \in {"collection_A", "collection_B"},
                                       d \in {"d1", "d2"}}

ReleaseVersions == {"1.2", "1.10", "beta"}

ReleaseInputs ==
    {[version |-> v, ppanggolin_version |-> p, pangbank_wf_version |-> w] :
        v \in ReleaseVersions, p \in {"2.1.0", "2.2.0"}, w \in {"1.0.0", "1.1.0"}}

RelAddGenomes ==
    /\ runs < MaxReleaseOps
    /\ \E inputs \in RefSeqInputs({GenomeList(1)}) : add_genomes_to_db(inputs)

RelCreateTaxonomySource == create_taxonomy_source(GTDB("24.1", <<"Domain", " Phylum">>))

RelAddTaxonToDb ==
    /\ run.pc = "add_taxon_to_db"
    /\ \E order \in NameOrders :
          add_taxon_to_db([g \in DOMAIN run.genome_name_to_genome |-> <<"A", "B">>], order)

RelCreateCollectionRelease ==
    /\ run.pc = "create_collection_release"
    /\ \E collection_input \in CollectionInputs, release_input \in ReleaseInputs :
          create_collection_release(collection_input, release_input, {})

\* the pangenome main directory: empty, or the one directory speciesA
RelPangenomeDirs ==
    {<<>>, <<[file_name |-> "speciesA/pangenome.h5", members |-> GenomeList(1)]>>}

RelAddPangenomesToDb ==
    /\ run.pc = "add_pangenomes_to_db"
    /\ \E dirs \in RelPangenomeDirs : add_pangenomes_to_db(dirs)

DeleteFullCollection ==
    /\ runs < MaxReleaseOps
    /\ \E c \in CollectionInputs : delete_full_collection(c.name)

DeleteCollectionRelease ==
    /\ runs < MaxReleaseOps
    /\ \E c \in CollectionInputs, v \in ReleaseVersions :
          delete_collection_release(c.name, v)

NextRelease ==
    \/ RelAddGenomes
    \/ RelCreateTaxonomySource
    \/ RelAddTaxonToDb
    \/ LinkGenomesAndTaxa
    \/ RelCreateCollectionRelease
    \/ RelAddPangenomesToDb
    \/ DeleteFullCollection
    \/ DeleteCollectionRelease

SpecRelease == Init /\ [][NextRelease]_vars

(***************************************************************************)
(* Properties of the collection/release lifecycle.                         *)
(***************************************************************************)
\* the stored releases of the named collection with the given version
StoredReleases(d, collection_name, version) ==
    {r \in d.collectionrelease :
        /\ r.version = version
        /\ \E c \in d.collection : c.id = r.collection_id /\ c.name = collection_name}

\* C10: create_collection_release for a stored (collection, version) with
\* another ppanggolin_version or pangbank_wf_version raises, and the
\* Collection and CollectionRelease tables are after the call as before it.
C10_MismatchRaisesUnchanged ==
    [][ ( /\ run.pc = "create_collection_release"
          /\ last'.op = "create_collection_release"
          /\ \E r \in StoredReleases(db, last'.collection_input.name,
                                     last'.release_input.version) :
                \/ r.ppanggolin_version # last'.release_input.ppanggolin_version
                \/ r.pangbank_wf_version # last'.release_input.pangbank_wf_version )
        => ( /\ last'.raised = "ValueError"
             /\ db'.collection = db.collection
             /\ db'.collectionrelease = db.collectionrelease ) ]_vars

\* a call that raised on a stored release with another ppanggolin_version,
\* in a collection that holds a second release
C10_Witness ==
    /\ last.op = "create_collection_release"
    /\ last.raised = "ValueError"
    /\ \E r \in StoredReleases(db, last.collection_input.name, last.release_input.version) :
          /\ r.ppanggolin_version # last.release_input.ppanggolin_version
          /\ Cardinality(ReleasesOf(db.collectionrelease, r.collection_id)) = 2


(***************************************************************************)
(* Properties of a whole ingestion run.                                    *)
(***************************************************************************)
\* the tables a run writes before it creates the release
IngestedTables(d) ==
    <<d.genomesource, d.genome, d.taxonomysource, d.taxon, d.genometaxonlink>>

\* C11: a run that fails a consistency check (rank mismatch of the taxonomy
\* source, immutable-field mismatch of the release) retains none of the
\* writes made earlier in the run: genome sources, genomes, taxonomy
\* sources, taxa and genome-taxon links are as when the run started.
C11_RunFailsAtomically ==
    [][ ( /\ run.pc \in {"create_taxonomy_source", "create_collection_release"}
          /\ last'.op = run.pc
          /\ last'.raised = "ValueError" )
        => IngestedTables(db') = IngestedTables(run.db_at_start) ]_vars

(***************************************************************************)
(* Further properties of the collection/release lifecycle.                 *)
(***************************************************************************)
\* the stored collections with the name
CollectionsNamed(collection_name) == {c \in db.collection : c.name = collection_name}

\* C12: after a successful create_collection_release, exactly one release of
\* the affected collection is flagged latest, it has the highest version
\* under semantic version ordering, and every other release of the
\* collection has latest = FALSE.
C12_OneLatestHighest ==
    (last.op = "create_collection_release" /\ last.raised = "none") =>
        \A c \in CollectionsNamed(last.collection_input.name) :
            LET rels == ReleasesOf(db.collectionrelease, c.id)
            IN  \E r \in rels :
                    /\ r.latest
                    /\ \A o \in rels : ~VersionLess(r.version, o.version)
                    /\ \A o \in rels : o # r => ~o.latest

\* the call stored 1.2 in a collection that held 1.10: 1.10 stays latest
C12_Witness ==
    /\ last.op = "create_collection_release"
    /\ last.raised = "none"
    /\ last.release_input.version = "1.2"
    /\ \E c \in CollectionsNamed(last.collection_input.name) :
          \E r, o \in ReleasesOf(db.collectionrelease, c.id) :
              /\ r.version = "1.10" /\ r.latest /\ r.id < o.id
              /\ o.version = "1.2" /\ ~o.latest

\* C13: create_collection_release is a get-or-create: there is one
\* Collection row per name and one CollectionRelease row per (collection,
\* version), and a successful call for a stored collection and release adds
\* no row and returns the stored release.
C13_GetOrCreate ==
    [][ /\ \A c, e \in db'.collection : c.name = e.name => c = e
        /\ \A r, o \in db'.collectionrelease :
              (r.collection_id = o.collection_id /\ r.version = o.version) => r = o
        /\ ( /\ run.pc = "create_collection_release"
             /\ last'.op = "create_collection_release"
             /\ last'.raised = "none"
             /\ StoredReleases(db, last'.collection_input.name,
                               last'.release_input.version) # {} )
           => /\ Cardinality(db'.collection) = Cardinality(db.collection)
              /\ Cardinality(db'.collectionrelease) = Cardinality(db.collectionrelease)
              /\ \E r \in StoredReleases(db, last'.collection_input.name,
                                         last'.release_input.version) :
                    run'.collection_release = r.id ]_vars

\* a successful call returned a release that is not the one stored last:
\* the release existed before the call
C13_Witness ==
    /\ last.op = "create_collection_release"
    /\ last.raised = "none"
    /\ last.collection_input.description = "d2"
    /\ \E c \in CollectionsNamed(last.collection_input.name) :
          /\ c.description = "d1"
          /\ \E r, o \in ReleasesOf(db.collectionrelease, c.id) :
                /\ r.id = run.collection_release
                /\ r.version = last.release_input.version
                /\ r.id < o.id

(***************************************************************************)
(* Further properties of the taxonomy source and the genome stage.         *)
(***************************************************************************)
\* C14: create_taxonomy_source for a stored (name, version) raises when the
\* rank lists differ after trimming and title-casing each rank, and returns
\* the stored row when they are equal under that normalisation; either way
\* the TaxonomySource table, with the stored ranks, stays as it was.
C14_RankMismatchRejected ==
    [][ \A input \in TaxonomySourceInputs :
          \A s \in db.taxonomysource :
            ( /\ create_taxonomy_source(input)
              /\ s.name = input.name
              /\ s.version = input.version )
            => /\ db'.taxonomysource = db.taxonomysource
               /\ IF [i \in DOMAIN s.ranks |-> Title(Strip(s.ranks[i]))]
                       = [i \in DOMAIN input.ranks |-> Title(Strip(input.ranks[i]))]
                  THEN last'.raised = "none" /\ run'.taxonomy_source = s.id
                  ELSE last'.raised = "ValueError" /\ run'.pc = "idle" ]_vars

\* the call raised on the one stored source, whose ranks are kept as written
C14_Witness ==
    /\ last.op = "create_taxonomy_source"
    /\ last.raised = "ValueError"
    /\ \E s \in db.taxonomysource :
          /\ db.taxonomysource = {s}
          /\ s.ranks = <<"domain ", "Phylum">>

(***************************************************************************)
(* SpecGenomes: ingestion runs whose genome source files are one or two    *)
(* sources, each listing any genome names in any order, a name possibly    *)
(* twice or under both sources; the taxonomy is one domain for every       *)
(* genome, and each run ingests one of two releases with one pangenome     *)
(* directory.                                                              *)
(***************************************************************************)
Release20 == [version |-> "2.0", ppanggolin_version |-> "2.1.0",
              pangbank_wf_version |-> "1.0.0"]

GenomeSourceInputs ==
    LET lists == SeqsOver(GenomeNames(NumGenomes), 1, NumGenomes)
        one(n) == {[name |-> n, genomes |-> l] : l \in lists}
    IN  {<<a>> : a \in one("RefSeq") \cup one("GenBank")}
          \cup {<<a, b>> : a \in one("RefSeq"), b \in one("GenBank")}

SrcAddGenomes ==
    /\ runs < MaxRuns
    /\ \E inputs \in GenomeSourceInputs : add_genomes_to_db(inputs)

SrcCreateTaxonomySource == create_taxonomy_source(GTDB("24.1", <<"Domain">>))

SrcAddTaxonToDb ==
    /\ run.pc = "add_taxon_to_db"
    /\ \E order \in NameOrders :
          add_taxon_to_db([g \in DOMAIN run.genome_name_to_genome |-> <<"A">>], order)

SrcCreateCollectionRelease ==
    /\ run.pc = "create_collection_release"
    /\ \E release_input \in {Release10, Release20} :
          create_collection_release(CollectionA, release_input, {})

SrcAddPangenomesToDb ==
    /\ run.pc = "add_pangenomes_to_db"
    /\ \E m \in GenomeNames(NumGenomes) :
          add_pangenomes_to_db(<<[file_name |-> "speciesA/pangenome.h5",
                                  members |-> <<m>>]>>)

NextGenomes ==
    \/ SrcAddGenomes
    \/ SrcCreateTaxonomySource
    \/ SrcAddTaxonToDb
    \/ LinkGenomesAndTaxa
    \/ SrcCreateCollectionRelease
    \/ SrcAddPangenomesToDb

SpecGenomes == Init /\ [][NextGenomes]_vars

\* C15: a Genome row is created on first sight of a name and reused
\* afterward: no add_genomes_to_db run tries to create a second row for a
\* name (which the unique name would refuse), also when the name is listed
\* under another genome source or twice, and one row exists per name.
C15_GenomeCreatedOnce ==
    /\ ~(last.op = "add_genomes_to_db" /\ last.raised = "IntegrityError")
    /\ \A g, h \in db.genome : g.name = h.name => g = h

(***************************************************************************)
(* Properties of the pangenome stage.                                      *)
(***************************************************************************)
\* the member genomes of a pangenome in the committed database d
MembersIn(d, p) ==
    {l.genome_id : l \in {x \in d.genomepangenomelink : x.pangenome_id = p.id}}

\* the representative taxa of a pangenome in the committed database d
PangenomeTaxaIn(d, p) ==
    {l.taxon_id : l \in {x \in d.pangenometaxonlink : x.pangenome_id = p.id}}

\* C16: no committed database state shows a half-populated pangenome: the
\* commit that makes a Pangenome row visible makes visible the links to all
\* genomes of its metrics table and all its representative-taxon links, and
\* no later commit adds to them.
C16_PangenomeCommittedWhole ==
    [][ /\ \A p \in db'.pangenome \ db.pangenome :
              \E i \in DOMAIN last'.linked :
                  /\ last'.linked[i].pangenome_id = p.id
                  /\ MembersIn(db', p) = Range(last'.linked[i].genomes)
                  /\ PangenomeTaxaIn(db', p) =
                         {t.id : t \in Range(link_pangenome_and_genome_taxa(
                                     last'.linked[i].genomes,
                                     ReleaseById(p.collection_release_id).taxonomy_source_id))}
        /\ \A p \in db'.pangenome \cap db.pangenome :
              /\ MembersIn(db', p) = MembersIn(db, p)
              /\ PangenomeTaxaIn(db', p) = PangenomeTaxaIn(db, p) ]_vars

\* a committed pangenome with two member genomes and a representative taxon
C16_Witness ==
    /\ last.op = "add_pangenomes_to_db"
    /\ last.raised = "none"
    /\ \E p \in db.pangenome :
          /\ Cardinality(MembersIn(db, p)) = 2
          /\ PangenomeTaxaIn(db, p) # {}

\* C17: a Pangenome row is created once per (collection release, file
\* path): add_pangenomes_to_db for a release that already stores every
\* given pangenome directory creates no Pangenome row and leaves the
\* genome links and the taxon links as they were.
C17_PangenomeCreatedOnce ==
    [][ \A dirs \in RelPangenomeDirs :
          ( /\ add_pangenomes_to_db(dirs)
            /\ dirs # <<>>
            /\ \A i \in DOMAIN dirs :
                  \E p \in db.pangenome :
                      /\ p.collection_release_id = run.collection_release
                      /\ p.file_name = dirs[i].file_name )
          => /\ db'.pangenome = db.pangenome
             /\ db'.genomepangenomelink = db.genomepangenomelink
             /\ db'.pangenometaxonlink = db.pangenometaxonlink ]_vars

\* a call that found its directory stored: it returned the stored
\* pangenome, which has its links, and linked nothing
C17_Witness ==
    /\ last.op = "add_pangenomes_to_db"
    /\ last.raised = "none"
    /\ last.linked = <<>>
    /\ Len(last.returned) = 1
    /\ \E p \in db.pangenome :
          /\ p.id = last.returned[1]
          /\ MembersIn(db, p) # {}
          /\ PangenomeTaxaIn(db, p) # {}

\* C18: add_pangenomes_to_db never tries to insert a (genome, pangenome)
\* link for a pair that is already linked or pending in the run, so no call
\* fails on the uniqueness of (genome_id, pangenome_id), also when the
\* metrics table of a pangenome names a genome twice.
C18_NoDuplicateGenomeLink ==
    ~(last.op = "add_pangenomes_to_db" /\ last.raised = "IntegrityError")

(***************************************************************************)
(* Properties of the delete commands.                                      *)
(***************************************************************************)
CollectionNames == {c.name : c \in CollectionInputs}

\* C19: delete_full_collection removes the named Collection with all its
\* releases and their pangenomes; delete_collection_release removes the
\* named release only: the Collection table and every other release stay.
C19_DeleteScope ==
    [][ /\ \A name \in CollectionNames :
              LET named == {c \in db.collection : c.name = name}
                  gone  == {r \in db.collectionrelease :
                               \E c \in named : r.collection_id = c.id}
              IN  (delete_full_collection(name) /\ named # {}) =>
                      /\ db'.collection = db.collection \ named
                      /\ db'.collectionrelease = db.collectionrelease \ gone
                      /\ db'.pangenome =
                             {p \in db.pangenome :
                                 \A r \in gone : p.collection_release_id # r.id}
        /\ \A name \in CollectionNames, version \in ReleaseVersions :
              LET gone == StoredReleases(db, name, version)
              IN  (delete_collection_release(name, version) /\ gone # {}) =>
                      /\ db'.collection = db.collection
                      /\ db'.collectionrelease = db.collectionrelease \ gone
                      /\ db'.pangenome =
                             {p \in db.pangenome :
                                 \A r \in gone : p.collection_release_id # r.id} ]_vars

\* two ingestion runs and a delete_collection_release have left one
\* collection with one release
C19_Witness ==
    /\ last.op = "delete_collection_release"
    /\ last.raised = "none"
    /\ runs = 3
    /\ Cardinality(db.collection) = 1
    /\ Cardinality(db.collectionrelease) = 1

\* C20: delete_full_collection for a collection name that is not stored and
\* delete_collection_release for a (collection, version) that is not stored
\* raise ValueError and leave every table unchanged.
C20_DeleteMissingRaises ==
    [][ /\ \A name \in CollectionNames :
              ( /\ delete_full_collection(name)
                /\ \A c \in db.collection : c.name # name )
              => (last'.raised = "ValueError" /\ db' = db)
        /\ \A name \in CollectionNames, version \in ReleaseVersions :
              ( /\ delete_collection_release(name, version)
                /\ \A r \in db.collectionrelease :
                      \/ r.version # version
                      \/ \A c \in db.collection :
                            c.id = r.collection_id => c.name # name )
              => (last'.raised = "ValueError" /\ db' = db) ]_vars

\* a delete_collection_release that raised while both collections and
\* releases are stored
C20_Witness ==
    /\ last.op = "delete_collection_release"
    /\ last.raised = "ValueError"
    /\ Cardinality(db.collection) = 2
    /\ Cardinality(db.collectionrelease) = 2

(***************************************************************************)
(* SpecCommonTaxa: one call of get_common_taxa on any two lists of up to   *)
(* MaxTaxaLen Taxon objects, with repeats, drawn from three taxa.          *)
(***************************************************************************)
SampleTaxa ==
    {[name |-> "Bacteria", rank |-> "Domain", depth |-> 0],
     [name |-> "Proteobacteria", rank |-> "Phylum", depth |-> 1],
     [name |-> "Firmicutes", rank |-> "Phylum", depth |-> 1]}

GetCommonTaxa ==
    /\ last = NoCall
    /\ \E taxa_A, taxa_B \in SeqsOver(SampleTaxa, 0, MaxTaxaLen) :
          last' = [op |-> "get_common_taxa", raised |-> "none",
                   taxa_A |-> taxa_A, taxa_B |-> taxa_B,
                   common_taxa |-> get_common_taxa(taxa_A, taxa_B)]
    /\ UNCHANGED <<db, run, add_calls, runs>>

NextCommonTaxa == GetCommonTaxa

SpecCommonTaxa == Init /\ [][NextCommonTaxa]_vars

\* C21: get_common_taxa(A, B) is the list of the elements of A that equal
\* some element of B, in their order in A; it is empty when A or B is empty
\* or they share no taxon, and get_common_taxa(A, A) is A.
C21_CommonTaxaOrderedFilter ==
    last.op = "get_common_taxa" =>
        LET A == last.taxa_A
            B == last.taxa_B
            kept == {i \in DOMAIN A : \E j \in DOMAIN B : A[i] = B[j]}
            nth(k) == CHOOSE i \in kept : Cardinality({j \in kept : j < i}) = k - 1
        IN  /\ Len(last.common_taxa) = Cardinality(kept)
            /\ \A k \in DOMAIN last.common_taxa : last.common_taxa[k] = A[nth(k)]
            /\ (A = <<>> \/ B = <<>> \/ Range(A) \cap Range(B) = {})
                  => last.common_taxa = <<>>
            /\ A = B => last.common_taxa = A

\* a call whose lists share two taxa in opposite orders and one list holds
\* a taxon the other lacks
C21_Witness ==
    /\ last.op = "get_common_taxa"
    /\ Len(last.common_taxa) = 2
    /\ Len(last.taxa_A) = 3
    /\ last.common_taxa[1] # last.common_taxa[2]
    /\ \E i, j \in DOMAIN last.taxa_B :
          /\ i < j
          /\ last.taxa_B[i] = last.common_taxa[2]
          /\ last.taxa_B[j] = last.common_taxa[1]

(***************************************************************************)
(* parse_taxonomy_file.  A line of the taxonomy file is a sequence of      *)
(* characters; a genome name or a taxon name of the model is one word and  *)
(* stands as one element of the line, beside the characters tab, space     *)
(* and ';'.                                                                *)
(***************************************************************************)
Whitespace == {" ", "\t"}

\* str.strip()
RECURSIVE StripLine(_)
StripLine(s) ==
    IF s = <<>> THEN s
    ELSE IF Head(s) \in Whitespace THEN StripLine(Tail(s))
    ELSE IF s[Len(s)] \in Whitespace THEN StripLine(SubSeq(s, 1, Len(s) - 1))
    ELSE s

\* str.split(sep): one field more than there are separators
RECURSIVE SplitAt(_, _)
SplitAt(s, sep) ==
    IF \A i \in DOMAIN s : s[i] # sep THEN <<s>>
    ELSE LET i == CHOOSE k \in DOMAIN s : s[k] = sep /\ \A j \in 1..(k - 1) : s[j] # sep
         IN  <<SubSeq(s, 1, i - 1)>> \o SplitAt(SubSeq(s, i + 1, Len(s)), sep)

\* the string of a field that is empty or one word
Word(field) == IF field = <<>> THEN "" ELSE field[1]

\* genome_name, taxonomy_str = line.strip().split("\t") fails to unpack
LineRaises(line) == Len(SplitAt(StripLine(line), "\t")) # 2

\* the (genome name, lineage) of a line that unpacks
ParsedLine(line) ==
    LET fields == SplitAt(StripLine(line), "\t")
        names  == SplitAt(fields[2], ";")
    IN  [genome_name |-> Word(fields[1]),
         lineage     |-> [k \in DOMAIN names |-> Word(StripLine(names[k]))]]

\* genome_to_lineage: a later line of a genome replaces an earlier one
parse_taxonomy_file(file) ==
    LET genomes == {ParsedLine(file[i]).genome_name : i \in DOMAIN file}
        last_of(g) == Max({i \in DOMAIN file : ParsedLine(file[i]).genome_name = g})
    IN  [g \in genomes |-> ParsedLine(file[last_of(g)]).lineage]

(***************************************************************************)
(* SpecTaxonomyFile: one ingestion run whose taxonomy file holds one or    *)
(* two lines, each for one of two genomes with a lineage of one or two     *)
(* names, spaces around a name, or nothing after the genome name.          *)
(***************************************************************************)
TaxonomyLines ==
    UNION {{<<g, "\t", "A">>,
            <<g, "\t", "A", ";", "B">>,
            <<g, "\t", " ", "B", ";", " ", "A", " ">>,
            <<g, "\t">>} : g \in GenomeNames(NumGenomes)}

TaxonomyFiles == SeqsOver(TaxonomyLines, 1, NumGenomes)

\* the run stops at parse_taxonomy_file, before the session is opened
ParseTaxonomyFileRaises ==
    /\ run.pc = "idle"
    /\ runs < MaxRunsWide
    /\ \E file \in TaxonomyFiles :
          \E i \in DOMAIN file :
              /\ LineRaises(file[i])
              /\ \A j \in 1..(i - 1) : ~LineRaises(file[j])
              /\ last' = [op |-> "parse_taxonomy_file", raised |-> "ValueError",
                          line |-> file[i]]
    /\ runs' = runs + 1
    /\ UNCHANGED <<db, run, add_calls>>

FileAddGenomes ==
    /\ runs < MaxRunsWide
    /\ \E inputs \in RefSeqInputs({GenomeList(k) : k \in 1..NumGenomes}) :
          add_genomes_to_db(inputs)

FileCreateTaxonomySource == create_taxonomy_source(GTDB("24.1", <<"Domain", " Phylum">>))

\* the lineage table of a run that got here was parsed from a file whose
\* lines all unpack
FileAddTaxonToDb ==
    /\ run.pc = "add_taxon_to_db"
    /\ \E file \in TaxonomyFiles :
          /\ \A i \in DOMAIN file : ~LineRaises(file[i])
          /\ \E order \in NameOrders : add_taxon_to_db(parse_taxonomy_file(file), order)

NextTaxonomyFile ==
    \/ ParseTaxonomyFileRaises
    \/ FileAddGenomes
    \/ FileCreateTaxonomySource
    \/ FileAddTaxonToDb
    \/ LinkGenomesAndTaxa
    \/ CreateCollectionRelease
    \/ AddPangenomesToDb

SpecTaxonomyFile == Init /\ [][NextTaxonomyFile]_vars

\* the line names a genome and no taxon
EmptyLineage(line) ==
    \E i \in DOMAIN line :
        /\ line[i] \notin Whitespace \cup {";"}
        /\ \A j \in DOMAIN line : j # i => line[j] \in Whitespace

\* C22: a genome whose lineage is empty is accepted by the ingestion: the
\* parse of its line does not fail (it yields an empty tuple) and the run
\* goes on, leaving the genome linked to no taxon.
C22_EmptyLineageAccepted ==
    ~( /\ last.op = "parse_taxonomy_file"
       /\ last.raised = "ValueError"
       /\ EmptyLineage(last.line) )

\* C23: a call of link_genomes_and_taxa with a genome that has no entry in
\* the genome-to-lineage mapping fails with a lookup error and adds no
\* GenomeTaxonLink row, also none for the genomes that do have an entry.
C23_MissingLineageRaises ==
    [][ ( /\ LinkGenomesAndTaxa
          /\ \E g \in DOMAIN run.genome_name_to_genome :
                g \notin DOMAIN run.genome_name_to_lineage )
        => ( /\ last'.op = "link_genomes_and_taxa"
             /\ last'.raised = "LookupError"
             /\ db'.genometaxonlink = db.genometaxonlink ) ]_vars

\* a call has failed on a missing entry while another genome of the run
\* had one: both genomes and the taxa are stored, no link is
C23_Witness ==
    /\ last.op = "link_genomes_and_taxa"
    /\ last.raised = "LookupError"
    /\ Cardinality(db.genome) = NumGenomes
    /\ db.taxon # {}
    /\ db.genometaxonlink = {}

\* C24: create_collection_release given a release whose version string is
\* no parseable version ("beta") fails with an error and the run stops
\* there: the call never returns the malformed release as the release of
\* the run.
C24_MalformedVersionFails ==
    (last.op = "create_collection_release" /\ last.release_input.version = "beta")
        => /\ last.raised \in {"InvalidVersion", "ValueError"}
           /\ run.pc = "idle"
           /\ run.collection_release = 0

\* a call with version "beta" has failed on the version sort
C24_Witness ==
    /\ last.op = "create_collection_release"
    /\ last.release_input.version = "beta"
    /\ last.raised = "InvalidVersion"

\* C25: in every reachable database state, also after a genome is ingested
\* again with a changed lineage, the taxon set of each genome for one
\* taxonomy source is a contiguous prefix of the rank chain: at most one
\* taxon per depth, and a taxon at every depth below the depth of any of
\* its taxa.
C25_GenomeTaxaContiguousPrefix ==
    \A g \in db.genome : \A s \in db.taxonomysource :
        LET taxa == {TaxonById(t) : t \in GenomeTaxa(g.id, s.id)}
        IN  /\ \A t, u \in taxa : t.depth = u.depth => t = u
            /\ \A t \in taxa : \A d \in 0..(t.depth - 1) :
                  \E u \in taxa : u.depth = d

\* the taxon has a depth within the rank list of its source and the rank
\* name the list holds at that depth
RankOfDepth(d, t) ==
    \E s \in d.taxonomysource :
        /\ s.id = t.taxonomy_source_id
        /\ t.depth \in 0..(Len(s.ranks) - 1)
        /\ t.rank = Strip(s.ranks[t.depth + 1])

\* C26: Taxon and TaxonomySource rows are append-only under ingestion: over
\* every step of the ingestion stages the sets of Taxon and TaxonomySource
\* rows only grow and no stored row changes a field, and every persisted
\* Taxon has a depth below the length of the rank list of its source and
\* the rank of that depth.
C26_TaxaAppendOnly ==
    [][ /\ db.taxon \subseteq db'.taxon
        /\ db.taxonomysource \subseteq db'.taxonomysource
        /\ \A t \in db.taxon : \A u \in db'.taxon : u.id = t.id => u = t
        /\ \A s \in db.taxonomysource : \A u \in db'.taxonomysource : u.id = s.id => u = s
        /\ \A t \in db'.taxon : RankOfDepth(db', t) ]_vars

\* a later run has added taxa, one of them of depth 1, to the taxa an
\* earlier run left
C26_Witness ==
    /\ last.op = "add_taxon_to_db"
    /\ last.raised = "none"
    /\ run.db_at_start.taxon # {}
    /\ run.db_at_start.taxon \subseteq db.taxon
    /\ \E t \in db.taxon \ run.db_at_start.taxon : t.depth = 1 /\ t.rank = "Phylum"

(***************************************************************************)
(* The public view of a collection (the read side of the API).             *)
(***************************************************************************)
\* what make_collection_public_with_releases raises on the collection in
\* the database d: max() of no release, parse of a malformed version, the
\* assertion on latest_release.latest, or nothing
make_collection_public_with_releases(d, collection) ==
    LET releases == ReleasesOf(d.collectionrelease, collection.id)
    IN  IF releases = {} THEN "ValueError"
        ELSE IF \E r \in releases : ~parse(r.version).valid THEN "InvalidVersion"
        ELSE LET latest_release ==
                     CHOOSE r \in releases :
                         \A o \in releases : o # r =>
                             \/ VersionLess(o.version, r.version)
                             \/ ~VersionLess(r.version, o.version) /\ r.id < o.id
             IN  IF latest_release.latest THEN "none" ELSE "AssertionError"

\* C27: the assertion of make_collection_public_with_releases never fails:
\* in every committed database state reached by create_collection_release,
\* delete_collection_release and delete_full_collection, every stored
\* collection has at least one release and its release of the highest
\* version is flagged latest.
C27_LatestAssertionHolds ==
    \A c \in db.collection :
        /\ ReleasesOf(db.collectionrelease, c.id) # {}
        /\ make_collection_public_with_releases(db, c) = "none"

(***************************************************************************)
(* The public view of a pangenome.                                         *)
(***************************************************************************)
\* the keys of taxonomy_source_to_taxonomy: one taxonomy per taxonomy
\* source among the taxa
get_taxonomies_from_taxa(taxa) == {t.taxonomy_source_id : t \in taxa}

\* what make_pangenome_public raises on a stored pangenome: the assertion
\* len(taxonomies) == 1, or nothing
make_pangenome_public(pangenome) ==
    LET taxonomies == get_taxonomies_from_taxa({TaxonById(t) : t \in PangenomeTaxa(pangenome)})
    IN  IF Cardinality(taxonomies) = 1 THEN "none" ELSE "AssertionError"

\* C28: the assertion of make_pangenome_public never fails: every pangenome
\* stored by add_pangenomes_to_db has representative taxa of exactly one
\* taxonomy source, never no taxon and never taxa of two sources, whatever
\* the lineages of its member genomes.
C28_OneTaxonomyPerPangenome ==
    \A p \in db.pangenome :
        /\ PangenomeTaxa(p) # {}
        /\ make_pangenome_public(p) = "none"

\* the orders in which the genomes of a member list can be processed
Reorderings(genomes) ==
    {[i \in DOMAIN genomes |-> genomes[f[i]]] : f \in Permutations(DOMAIN genomes)}

\* C29: the representative taxon set resolved for a pangenome does not
\* depend on the order in which its member genomes are processed: every
\* permutation of the member list of a linked pangenome resolves to the
\* same set of taxa.
C29_OrderIndependent ==
    (last.op = "add_pangenomes_to_db" /\ last.raised = "none") =>
        \A i \in DOMAIN last.linked :
            LET genomes == last.linked[i].genomes
                pangenome == CHOOSE p \in db.pangenome : p.id = last.linked[i].pangenome_id
            IN  \A reordered \in Reorderings(genomes) :
                    Range(link_pangenome_and_genome_taxa(reordered, SourceOf(pangenome)))
                      = Range(link_pangenome_and_genome_taxa(genomes, SourceOf(pangenome)))

\* C30: whenever create_collection_release raises, on an immutable-field
\* mismatch or on an unparseable version, the committed Collection and
\* CollectionRelease tables are the same as before the call.
C30_FailedReleaseCallLeavesTables ==
    [][ (RelCreateCollectionRelease /\ last'.raised # "none")
        => /\ db'.collection = db.collection
           /\ db'.collectionrelease = db.collectionrelease ]_vars

====
